---- MODULE Spec2Model ----
(***************************************************************************)
(* A model of the EditorConfig extension for VS Code: the DocumentWatcher  *)
(* (the map from document path to resolved configuration, its rebuild and  *)
(* its per-document resolution), the push of editor options, and the       *)
(* on-save transform pipeline (trim trailing whitespace, insert final      *)
(* newline, save).                                                         *)
(*                                                                         *)
(* JavaScript runs every handler to completion on one thread; a handler    *)
(* and the promise reactions (microtasks) it makes runnable form one       *)
(* action.  The suspension points are editorconfig.parse, editor.edit and  *)
(* textDocument.save: each has an action of its own for its settlement.    *)
(***************************************************************************)
EXTENDS Integers, Sequences, FiniteSets, TLC

(***************************************************************************)
(* Bounds of the model.                                                    *)
(***************************************************************************)
\* lines of a document drawn by PipeInit
MaxLines == 2
\* document-saved and active-editor-changed events delivered
MaxEvents == 2
\* calls of editorconfig.parse made
MaxRes == 4
\* invocations of the generate command
MaxGens == 2

(***************************************************************************)
(* JavaScript values.  Every value carries its type, so that values of     *)
(* different types compare unequal, as with ===.                           *)
(***************************************************************************)
Undef == [t |-> "undefined", n |-> 0, s |-> ""]
Num(k) == [t |-> "number", n |-> k, s |-> ""]
Str(x) == [t |-> "string", n |-> 0, s |-> x]
Bool(b) == [t |-> "boolean", n |-> IF b THEN 1 ELSE 0, s |-> ""]
\* a function object inherited from Object.prototype (Object itself)
Func(x) == [t |-> "function", n |-> 0, s |-> x]

\* ToBoolean: what `if (v)`, `!v`, `v ? a : b` and `v || w` test
Truthy(v) ==
    CASE v.t = "undefined" -> FALSE
      [] v.t = "number" -> v.n # 0
      [] v.t = "string" -> v.s # ""
      [] v.t = "boolean" -> v.n = 1
      [] OTHER -> TRUE

\* a || b
Or(a, b) == IF Truthy(a) THEN a ELSE b

(***************************************************************************)
(* The documents the workspace holds open (workspace.textDocuments), by    *)
(* fileName.  One is a configuration file, one is untitled.                *)
(***************************************************************************)
CfgDoc == "/w/.editorconfig"
SrcDoc == "/w/a.ts"
UntitledDoc == "Untitled-1"
textDocuments == <<CfgDoc, SrcDoc, UntitledDoc>>
Docs == {textDocuments[i] : i \in 1..Len(textDocuments)}
\* a host for which no document is untitled
neverUntitled(d) == FALSE
\* document.isUntitled
isUntitled(d) == d = UntitledDoc
\* path.basename(fileName)
basename(d) ==
    CASE d = CfgDoc -> ".editorconfig"
      [] d = SrcDoc -> "a.ts"
      [] OTHER -> d
NoEditor == "none"

(***************************************************************************)
(* editorconfig.knownProps: the properties the extension reads.            *)
(***************************************************************************)
Config(style, size, width, eol, ifn, ttw) ==
    [indent_style |-> style, indent_size |-> size, tab_width |-> width,
     end_of_line |-> eol, insert_final_newline |-> ifn,
     trim_trailing_whitespace |-> ttw]

\* what editorconfig.parse(path) resolves to in Spec when it reads the
\* configuration file as saved for the version-th time: the sections that
\* match the two files differ, and every save changes them
parse(path, version) ==
    IF (path = CfgDoc) = (version % 2 = 0)
    THEN Config(Str("tab"), Str("tab"), Num(4), Str("lf"), Bool(TRUE), Bool(TRUE))
    ELSE IF path = CfgDoc
    THEN Config(Str("space"), Num(2), Undef, Str("crlf"), Bool(TRUE), Bool(FALSE))
    ELSE Config(Undef, Str("tab"), Undef, Str("lf"), Bool(TRUE), Bool(TRUE))

\* the configurations PipeInit draws: every combination of the properties
\* the transforms read
EndOfLineValues ==
    {Undef, Str("lf"), Str("cr"), Str("crlf"), Str("CRLF"), Str("lf2"),
     Str("constructor")}
FlagValues == {Undef, Bool(TRUE), Bool(FALSE)}
PipeConfigs ==
    { Config(Undef, Undef, Undef, eol, ifn, ttw) :
        eol \in EndOfLineValues, ifn \in FlagValues, ttw \in FlagValues }

(***************************************************************************)
(* Document text: a sequence of lines, a line a sequence of characters     *)
(* (TextLine.text, without its line break).                                *)
(***************************************************************************)
\* the characters /[\s\uFEFF\xA0]/ matches that a line's text can hold
WhitespaceChars == {" ", "\t", "\f", "nbsp", "bom"}

SeqsUpTo(S, n) == UNION {[1..k -> S] : k \in 0..n}
\* the lines PipeInit draws: empty, without trailing whitespace, with inner
\* and trailing whitespace, and whitespace only
SampleLines ==
    { <<>>, <<"x">>, <<" ", "x", " ">>, <<" ", " ">> }
AllTexts == SeqsUpTo(SampleLines, MaxLines)

\* input.replace(/[\s\uFEFF\xA0]$/g, ''): the pattern without its +
trimOneTrailing(input) ==
    IF input # <<>> /\ input[Len(input)] \in WhitespaceChars
    THEN SubSeq(input, 1, Len(input) - 1)
    ELSE input

\* input.replace(/[\s\uFEFF\xA0]+$/g, '')
RECURSIVE trimTrailingWhitespace(_)
trimTrailingWhitespace(input) ==
    IF input # <<>> /\ input[Len(input)] \in WhitespaceChars
    THEN trimTrailingWhitespace(SubSeq(input, 1, Len(input) - 1))
    ELSE input

\* String.prototype.toLowerCase on the end_of_line values
toLowerCase(x) ==
    CASE x = "CRLF" -> "crlf"
      [] x = "CR" -> "cr"
      [] x = "LF" -> "lf"
      [] OTHER -> x

\* { cr: '\r', crlf: '\r\n' }[key]: an own property, else what the literal
\* inherits from Object.prototype under that key, else undefined
lineEndings(key) ==
    CASE key = "cr" -> Str("\r")
      [] key = "crlf" -> Str("\r\n")
      [] key = "constructor" -> Func("Object")
      [] OTHER -> Undef

\* editorconfig.end_of_line.toLowerCase() throws a TypeError when
\* end_of_line is not a string
newlineThrows(editorconfig) == editorconfig.end_of_line.t # "string"

newline(editorconfig) ==
    Or(lineEndings(toLowerCase(editorconfig.end_of_line.s)), Str("\n"))

NewlineSequences == {Str("\n"), Str("\r"), Str("\r\n")}

(***************************************************************************)
(* Utils.fromEditorConfig                                                  *)
(***************************************************************************)
\* a conversion that does not fall back to indent_size
fromEditorConfigWidthOnly(config, defaults) ==
    [insertSpaces |->
        IF Truthy(config.indent_style)
        THEN Bool(config.indent_style # Str("tab"))
        ELSE defaults.insertSpaces,
     tabSize |-> Or(config.tab_width, defaults.tabSize)]

fromEditorConfig(config, defaults) ==
    [insertSpaces |->
        IF Truthy(config.indent_style)
        THEN Bool(config.indent_style # Str("tab"))
        ELSE defaults.insertSpaces,
     tabSize |-> Or(Or(config.tab_width, config.indent_size), defaults.tabSize)]

(***************************************************************************)
(* Utils.toEditorConfig and Utils.resolveTabSize.  A JavaScript object is  *)
(* a function from its own property names to their values.                 *)
(***************************************************************************)
\* the number NaN (falsy, like 0)
NaN == [t |-> "number", n |-> 0, s |-> "NaN"]

\* obj[key] = value on a JavaScript object used as a map
Put(obj, key, value) ==
    [k \in DOMAIN obj \cup {key} |-> IF k = key THEN value ELSE obj[k]]

\* obj[key]: undefined for a property the object does not have
Prop(obj, key) == IF key \in DOMAIN obj THEN obj[key] ELSE Undef

\* an object read as editorconfig.knownProps
knownProps(obj) ==
    Config(Prop(obj, "indent_style"), Prop(obj, "indent_size"),
           Prop(obj, "tab_width"), Prop(obj, "end_of_line"),
           Prop(obj, "insert_final_newline"),
           Prop(obj, "trim_trailing_whitespace"))

DigitChars == <<"0", "1", "2", "3", "4", "5", "6", "7", "8", "9">>
digitValue(c) == (CHOOSE i \in 1..10 : DigitChars[i] = c) - 1
isDigit(c) == \E i \in 1..10 : DigitChars[i] = c

\* the characters of the strings a setting can hold
chars(x) ==
    CASE x = "auto" -> <<"a", "u", "t", "o">>
      [] x = "8" -> <<"8">>
      [] x = "08" -> <<"0", "8">>
      [] x = "12" -> <<"1", "2">>
      [] x = " 2" -> <<" ", "2">>
      [] x = "2px" -> <<"2", "p", "x">>
      [] x = "tab" -> <<"t", "a", "b">>
      [] OTHER -> <<"?">>

\* Number.prototype.toString of a non-negative integer
RECURSIVE numberToString(_)
numberToString(k) ==
    IF k < 10 THEN <<DigitChars[k + 1]>>
    ELSE Append(numberToString(k \div 10), DigitChars[(k % 10) + 1])

\* tabSize + ''
toStringChars(v) ==
    CASE v.t = "number" /\ v.s = "NaN" -> <<"N", "a", "N">>
      [] v.t = "number" -> numberToString(v.n)
      [] v.t = "string" -> chars(v.s)
      [] v.t = "boolean" -> IF v.n = 1 THEN <<"t", "r", "u", "e">>
                            ELSE <<"f", "a", "l", "s", "e">>
      [] OTHER -> <<"u", "n", "d", "e", "f", "i", "n", "e", "d">>

\* parseInt skips leading whitespace
RECURSIVE skipWhitespace(_)
skipWhitespace(cs) ==
    IF cs # <<>> /\ Head(cs) \in WhitespaceChars
    THEN skipWhitespace(Tail(cs)) ELSE cs

\* the longest prefix of digits
RECURSIVE leadingDigits(_)
leadingDigits(cs) ==
    IF cs # <<>> /\ isDigit(Head(cs))
    THEN <<Head(cs)>> \o leadingDigits(Tail(cs)) ELSE <<>>

RECURSIVE digitsValue(_, _)
digitsValue(ds, acc) ==
    IF ds = <<>> THEN acc
    ELSE digitsValue(Tail(ds), 10 * acc + digitValue(Head(ds)))

\* parseInt(string, 10) of a string without sign
parseInt10(cs) ==
    LET ds == leadingDigits(skipWhitespace(cs))
    IN IF ds = <<>> THEN NaN ELSE Num(digitsValue(ds, 0))

resolveTabSize(tabSize) ==
    IF tabSize = Str("auto") THEN Num(4) ELSE parseInt10(toStringChars(tabSize))

\* a conversion that emits indent_size for tabs as well
toEditorConfigAlwaysSize(opts) ==
    CASE opts.insertSpaces = Bool(TRUE) ->
           Put(Put(<<>>, "indent_style", Str("space")),
               "indent_size", resolveTabSize(opts.tabSize))
      [] opts.insertSpaces = Bool(FALSE) \/ opts.insertSpaces = Str("auto") ->
           Put(Put(Put(<<>>, "indent_style", Str("tab")),
                   "indent_size", resolveTabSize(opts.tabSize)),
               "tab_width", resolveTabSize(opts.tabSize))
      [] OTHER -> <<>>

toEditorConfig(opts) ==
    CASE opts.insertSpaces = Bool(TRUE) ->
           Put(Put(<<>>, "indent_style", Str("space")),
               "indent_size", resolveTabSize(opts.tabSize))
      [] opts.insertSpaces = Bool(FALSE) \/ opts.insertSpaces = Str("auto") ->
           Put(Put(<<>>, "indent_style", Str("tab")),
               "tab_width", resolveTabSize(opts.tabSize))
      [] OTHER -> <<>>

\* the values workspace.getConfiguration('editor') can hold for insertSpaces
\* and tabSize
InsertSpacesValues == {Bool(TRUE), Bool(FALSE), Str("auto"), Undef}
TabSizeValues ==
    {Num(2), Num(4), Num(12), Str("auto"), Str("8"), Str("08"), Str("12"),
     Undef}
HostSettings ==
    { [tabSize |-> ts, insertSpaces |-> is] :
        ts \in TabSizeValues, is \in InsertSpacesValues }

(***************************************************************************)
(* State.                                                                  *)
(***************************************************************************)
VARIABLES
    \* DocumentWatcher._documentToConfigMap: fileName -> stored configuration
    _documentToConfigMap,
    \* history: for each stored fileName, the index in res of the call of
    \* editorconfig.parse whose result is stored
    mapSrc,
    \* history: how often the map has been cleared since construction
    epoch,
    \* the calls of editorconfig.parse made so far, in order
    res,
    \* the calls of _rebuildConfigMap made so far (each a Promise.all)
    rebuilds,
    \* the runs of the transform pipeline started so far
    runs,
    \* the text of every open document
    text,
    \* window.activeTextEditor and window.visibleTextEditors, by document
    activeTextEditor,
    visibleTextEditors,
    \* DocumentWatcher._defaults
    _defaults,
    \* TextEditor.options as last assigned by the extension, by document
    options,
    \* the host's files.trimTrailingWhitespace setting
    filesTrim,
    \* document-saved and active-editor-changed events delivered so far
    saves,
    activations,
    \* history: the last call of _onDidOpenDocument (its document, the branch
    \* it took, whether it called applyEditorConfigToTextEditor)
    lastOpen,
    \* workspace.rootPath
    rootPath,
    \* the file `${workspace.rootPath}/.editorconfig` on disk: <<>> when there
    \* is none, else <<its contents>>
    disk,
    \* the invocations of the generate command made so far
    gens,
    \* the conversion between host options and configuration under way
    conv

vars ==
    <<_documentToConfigMap, mapSrc, epoch, res, rebuilds, runs, text,
      activeTextEditor, visibleTextEditors, _defaults, options, filesTrim,
      saves, activations, lastOpen, rootPath, disk, gens, conv>>

\* what the watcher and the pipeline neither read nor write
toolVars == <<rootPath, disk, gens, conv>>

\* the host's editor.tabSize / editor.insertSpaces settings
EditorSettings ==
    { [tabSize |-> Num(4), insertSpaces |-> Bool(TRUE)],
      [tabSize |-> Num(2), insertSpaces |-> Bool(FALSE)] }

Min(a, b) == IF a < b THEN a ELSE b

NoConfig == Config(Undef, Undef, Undef, Undef, Undef, Undef)

(***************************************************************************)
(* The edit primitive of the host: an edit built in the callback of        *)
(* editor.edit is applied when the thenable settles.                       *)
(***************************************************************************)
\* edit.delete(new Range(line, from, line, to))
ApplyDelete(lines, e) ==
    IF e.line + 1 > Len(lines) THEN lines
    ELSE LET l == lines[e.line + 1]
             a == Min(e.from, Len(l))
             b == Min(e.to, Len(l))
         IN [lines EXCEPT ![e.line + 1] =
                SubSeq(l, 1, a) \o SubSeq(l, b + 1, Len(l))]

\* what the host can make of an inserting edit: a string is inserted; for a
\* value that is no string the edit is dropped, or the value is printed into
\* the line, or the edit is rejected
InsertOutcomes(e) ==
    IF e.text \in NewlineSequences THEN {"applied"}
    ELSE {"dropped", "printed", "rejected"}

\* a value that is no string printed at col: text without a line break
ApplyPrint(lines, e) ==
    IF e.line + 1 > Len(lines) THEN lines
    ELSE LET l == lines[e.line + 1]
             c == Min(e.col, Len(l))
         IN [lines EXCEPT ![e.line + 1] =
                SubSeq(l, 1, c) \o <<"F">> \o SubSeq(l, c + 1, Len(l))]

\* edit.insert(new Position(line, col), text): a newline sequence breaks the
\* line at col
ApplyInsert(lines, e) ==
    IF e.text \notin NewlineSequences \/ e.line + 1 > Len(lines) THEN lines
    ELSE LET l == lines[e.line + 1]
             c == Min(e.col, Len(l))
         IN SubSeq(lines, 1, e.line)
            \o <<SubSeq(l, 1, c), SubSeq(l, c + 1, Len(l))>>
            \o SubSeq(lines, e.line + 2, Len(lines))

(***************************************************************************)
(* The transform pipeline.                                                 *)
(***************************************************************************)
\* a trimming promise that does not wait for its edits
TrimAnySettled(pending) == TRUE

\* Promise.all(trimmingOperations) is fulfilled once no edit is pending
TrimAllSettled(pending) == pending = {}

\* trimLineTrailingWhitespace for every line: the deletions issued
trimmingOperations(editorconfig, lines) ==
    IF filesTrim \/ ~Truthy(editorconfig.trim_trailing_whitespace) THEN {}
    ELSE { [line |-> i - 1,
            from |-> Len(trimTrailingWhitespace(lines[i])),
            to |-> Len(lines[i])] :
           i \in {j \in 1..Len(lines) : trimTrailingWhitespace(lines[j]) # lines[j]} }

\* the early returns without the test of the last line's length
skipsOnFlagOnly(editorconfig, lines) ==
    ~Truthy(editorconfig.insert_final_newline) \/ Len(lines) = 0

\* the early returns of insertFinalNewlineTransform
skipsInsertion(editorconfig, lines) ==
    \/ ~Truthy(editorconfig.insert_final_newline)
    \/ Len(lines) = 0
    \/ Len(lines[Len(lines)]) < 1

\* insertFinalNewlineTransform, then (when it returns a resolved promise)
\* textDocument.save(): the run after the trimming promise is fulfilled
insertFinalNewlineTransform(run, lines) ==
    LET lineCount == Len(lines)
        ran == [run EXCEPT !.seen = <<lines>>]
    IN
    IF skipsInsertion(run.cfg, lines)
    THEN [ran EXCEPT !.stage = "save"]
    ELSE IF newlineThrows(run.cfg)
    THEN [ran EXCEPT !.stage = "threw"]
    ELSE LET e == [line |-> lineCount - 1, col |-> Len(lines[lineCount]),
                   text |-> newline(run.cfg)]
         IN [ran EXCEPT !.stage = "newline", !.insert = <<e>>,
                        !.inserted = <<e>>]

(* A run of the pipeline: doc, the document; cfg, the configuration        *)
(* applyOnSaveTransformations read; stage, where the promise chain stands   *)
(* ("trim": Promise.all of the trimming edits pending, "newline": the       *)
(* inserting edit pending, "save": save() pending, "done", or "threw": the  *)
(* chain was rejected); pending, the trimming edits not yet settled;        *)
(* insert, the inserting edit not yet settled.  History: src, the call of   *)
(* editorconfig.parse that stored cfg; rebuild, the rebuild the run         *)
(* continues (0: none); issued and inserted, the edits issued; seen, the    *)
(* lines insertFinalNewlineTransform read; read, the lines the trimming     *)
(* read; prev, the run before it on doc;                                    *)
(* quiet, whether every earlier run on doc had finished its transforms.     *)

\* the runs already started on doc
RunsOn(doc) == {i \in 1..Len(runs) : runs[i].doc = doc}

\* a pipeline that does not look for a visible editor
applyWithoutFindEditor(doc, map, src, rebuild) ==
    IF doc \notin DOMAIN map THEN <<>>
    ELSE LET edits == trimmingOperations(map[doc], text[doc])
             run == [doc |-> doc, cfg |-> map[doc], src |-> src[doc],
                     rebuild |-> rebuild, stage |-> "trim",
                     pending |-> edits, issued |-> edits,
                     insert |-> <<>>, inserted |-> <<>>, seen |-> <<>>,
                     read |-> <<text[doc]>>,
                     prev |-> 0, quiet |-> TRUE]
         IN IF TrimAllSettled(edits)
            THEN <<insertFinalNewlineTransform(run, text[doc])>>
            ELSE <<run>>

\* applyOnSaveTransformations(textDocument, provider): the run it starts, if
\* any.  rebuild is the index of the rebuild it continues, or 0.
applyOnSaveTransformations(doc, map, src, rebuild) ==
    IF doc \notin DOMAIN map THEN <<>>
    ELSE IF doc \notin visibleTextEditors THEN <<>>
    ELSE LET edits == trimmingOperations(map[doc], text[doc])
             run == [doc |-> doc, cfg |-> map[doc], src |-> src[doc],
                     rebuild |-> rebuild, stage |-> "trim",
                     pending |-> edits, issued |-> edits,
                     insert |-> <<>>, inserted |-> <<>>, seen |-> <<>>,
                     read |-> <<text[doc]>>,
                     prev |-> IF RunsOn(doc) = {} THEN 0
                              ELSE CHOOSE i \in RunsOn(doc) :
                                     \A j \in RunsOn(doc) : j <= i,
                     quiet |-> \A j \in RunsOn(doc) :
                                 runs[j].stage \in {"save", "done", "threw"}]
         IN IF TrimAllSettled(edits)
            THEN <<insertFinalNewlineTransform(run, text[doc])>>
            ELSE <<run>>

(***************************************************************************)
(* The DocumentWatcher.                                                    *)
(***************************************************************************)
\* a refresh that pushes the options of the configuration file's entry
applyConfigFileEntry(textEditor, map, dflt, opts) ==
    IF textEditor = NoEditor THEN opts
    ELSE IF CfgDoc \notin DOMAIN map THEN opts
    ELSE Put(opts, textEditor, fromEditorConfig(map[CfgDoc], dflt))

\* applyEditorConfigToTextEditor(window.activeTextEditor, this): the options
\* of the editors afterwards
applyEditorConfigToTextEditor(textEditor, map, dflt, opts) ==
    IF textEditor = NoEditor THEN opts
    ELSE IF textEditor \notin DOMAIN map THEN opts
    ELSE Put(opts, textEditor, fromEditorConfig(map[textEditor], dflt))

\* a then-callback that stores what editorconfig.parse resolved to as it is
NormalizeKeepsTab(config) == config

\* the then-callback of editorconfig.parse: indent_size 'tab' becomes tab_width
Normalize(config) ==
    IF config.indent_size = Str("tab")
    THEN [config EXCEPT !.indent_size = config.tab_width]
    ELSE config

\* _onDidOpenDocument(document): the calls of editorconfig.parse it makes
\* (none for an untitled document or a stored path)
onDidOpenCalls(document, map, ep, rebuild) ==
    IF isUntitled(document) THEN <<>>
    ELSE IF document \in DOMAIN map THEN <<>>
    ELSE <<[path |-> document, epoch |-> ep, rebuild |-> rebuild,
            status |-> "pending", done |-> 0, raw |-> NoConfig]>>

\* a call of _onDidOpenDocument that never refreshes
openCallNoRefresh(document, map) ==
    [doc |-> document,
     branch |-> IF isUntitled(document) THEN "untitled"
                ELSE IF document \in DOMAIN map THEN "stored" ELSE "parse",
     refresh |-> FALSE]

\* _onDidOpenDocument(document): the branch the call takes, and whether it
\* calls applyEditorConfigToTextEditor before it returns
openCall(document, map) ==
    IF isUntitled(document)
    THEN [doc |-> document, branch |-> "untitled", refresh |-> FALSE]
    ELSE IF document \in DOMAIN map
    THEN [doc |-> document, branch |-> "stored", refresh |-> TRUE]
    ELSE [doc |-> document, branch |-> "parse", refresh |-> FALSE]

\* the last call of _onDidOpenDocument that _rebuildConfigMap makes
lastRebuildOpen == openCall(textDocuments[Len(textDocuments)], <<>>)

\* no generate command invoked, no conversion under way
NoConv == [stage |-> "none"]
ToolsIdle ==
    /\ rootPath = Str("/w")
    /\ disk = <<>>
    /\ gens = <<>>
    /\ conv = NoConv

\* workspace.textDocuments.map(document => this._onDidOpenDocument(document))
\* right after the map was set to {}
RECURSIVE rebuildCalls(_, _, _)
rebuildCalls(docs, ep, rebuild) ==
    IF docs = <<>> THEN <<>>
    ELSE onDidOpenCalls(Head(docs), <<>>, ep, rebuild)
         \o rebuildCalls(Tail(docs), ep, rebuild)

\* a Promise.all that is fulfilled with its first fulfilled call
AnyFulfilled(k, i) == TRUE

\* Promise.all over the calls of rebuild k is fulfilled when call i is, if
\* every other call of k is fulfilled already
AllFulfilled(k, i) ==
    \A j \in 1..Len(res) :
        (j # i /\ res[j].rebuild = k) => res[j].status = "fulfilled"

\* a then-callback that stores nothing once a call of the same rebuild failed
thenStoreUnlessRejected(i, raw) ==
    IF res[i].rebuild # 0 /\ rebuilds[res[i].rebuild].state = "rejected"
    THEN _documentToConfigMap
    ELSE Put(_documentToConfigMap, res[i].path, Normalize(raw))

\* the then-callback of call i: this._documentToConfigMap[path] = config
thenStore(i, raw) == Put(_documentToConfigMap, res[i].path, Normalize(raw))

\* whether the saved document is a configuration file
IsConfigFile(savedDocument) == basename(savedDocument) = ".editorconfig"

(***************************************************************************)
(* Initial states: the state the constructor leaves, with the first        *)
(* rebuild's calls of editorconfig.parse pending.                          *)
(***************************************************************************)
SpecTexts ==
    { << <<"x", " ">> >> }

Init ==
    /\ _documentToConfigMap = <<>>
    /\ mapSrc = <<>>
    /\ epoch = 0
    /\ res = rebuildCalls(textDocuments, 0, 1)
    /\ rebuilds = <<[doc |-> NoEditor, state |-> "pending", epoch |-> 0,
                     ran |-> FALSE]>>
    /\ runs = <<>>
    /\ \E t \in SpecTexts : text = [d \in Docs |-> t]
    /\ activeTextEditor = CfgDoc
    /\ visibleTextEditors = {CfgDoc}
    /\ _defaults \in EditorSettings
    /\ options = <<>>
    /\ filesTrim = FALSE
    /\ saves = 0
    /\ activations = 0
    /\ lastOpen = lastRebuildOpen
    /\ ToolsIdle

\* a state in which the first rebuild has completed with configuration c
\* for both files, and the source document holds any text
PipeInit ==
    \E c \in PipeConfigs, t \in AllTexts :
      LET dflt == [tabSize |-> Num(4), insertSpaces |-> Bool(TRUE)] IN
        /\ _documentToConfigMap = [d \in {CfgDoc, SrcDoc} |-> c]
        /\ mapSrc = [d \in {CfgDoc, SrcDoc} |-> IF d = CfgDoc THEN 1 ELSE 2]
        /\ epoch = 0
        /\ res = [i \in 1..2 |->
                    [path |-> textDocuments[i], epoch |-> 0, rebuild |-> 1,
                     status |-> "fulfilled", done |-> 0, raw |-> c]]
        /\ rebuilds = <<[doc |-> NoEditor, state |-> "fulfilled", epoch |-> 0,
                         ran |-> FALSE]>>
        /\ runs = <<>>
        /\ text = [d \in Docs |-> IF d = SrcDoc THEN t ELSE << <<>> >>]
        /\ activeTextEditor = SrcDoc
        /\ visibleTextEditors = {SrcDoc}
        /\ _defaults = dflt
        /\ options = [d \in {SrcDoc} |-> fromEditorConfig(c, dflt)]
        /\ filesTrim \in BOOLEAN
        /\ saves = 0
        /\ activations = 0
        /\ lastOpen = lastRebuildOpen
        /\ ToolsIdle

(***************************************************************************)
(* Actions: the event handlers.                                            *)
(***************************************************************************)
\* window.onDidChangeActiveTextEditor(textEditor => ...): the editor of
\* document ed (or none) became the active one.  The window shows one editor
\* group, so the active editor is the visible one.
ActiveEditorChanged(ed) ==
    LET calls == IF ed = NoEditor THEN <<>>
                 ELSE onDidOpenCalls(ed, _documentToConfigMap, epoch, 0)
    IN /\ activations + saves < MaxEvents
       /\ Len(res) + Len(calls) <= MaxRes
       /\ activations' = activations + 1
       /\ activeTextEditor' = ed
       /\ visibleTextEditors' = IF ed = NoEditor THEN {} ELSE {ed}
       /\ res' = res \o calls
       /\ options' =
            IF ed # NoEditor /\ ~isUntitled(ed) /\ ed \in DOMAIN _documentToConfigMap
            THEN applyEditorConfigToTextEditor(ed, _documentToConfigMap,
                                               _defaults, options)
            ELSE options
       /\ lastOpen' = IF ed = NoEditor THEN lastOpen
                      ELSE openCall(ed, _documentToConfigMap)
       /\ UNCHANGED <<_documentToConfigMap, mapSrc, epoch, rebuilds, runs, text,
                      _defaults, filesTrim, saves, toolVars>>

\* workspace.onDidChangeConfiguration: _onConfigChanged
ConfigChanged ==
    /\ \E s \in EditorSettings : _defaults' = s
    /\ _defaults' # _defaults
    /\ UNCHANGED <<_documentToConfigMap, mapSrc, epoch, res, rebuilds, runs,
                   text, activeTextEditor, visibleTextEditors, options,
                   filesTrim, saves, activations, lastOpen, toolVars>>

\* workspace.onDidSaveTextDocument(savedDocument => ...)
DocumentSaved(savedDocument) ==
    LET calls == rebuildCalls(textDocuments, epoch + 1, Len(rebuilds) + 1)
    IN /\ activations + saves < MaxEvents
       /\ ~isUntitled(savedDocument)
       /\ saves' = saves + 1
       /\ IF IsConfigFile(savedDocument)
          THEN /\ Len(res) + Len(calls) <= MaxRes
               /\ _documentToConfigMap' = <<>>
               /\ mapSrc' = <<>>
               /\ epoch' = epoch + 1
               /\ res' = res \o calls
               /\ rebuilds' = Append(rebuilds,
                    [doc |-> savedDocument,
                     state |-> IF calls = <<>> THEN "fulfilled" ELSE "pending",
                     epoch |-> epoch + 1, ran |-> calls = <<>>])
               /\ lastOpen' = lastRebuildOpen
               /\ UNCHANGED runs
          ELSE /\ runs' = runs \o applyOnSaveTransformations(
                              savedDocument, _documentToConfigMap, mapSrc, 0)
               /\ UNCHANGED <<_documentToConfigMap, mapSrc, epoch, res, rebuilds,
                              lastOpen>>
       /\ UNCHANGED <<text, activeTextEditor, visibleTextEditors, _defaults,
                      options, filesTrim, activations, toolVars>>

\* editorconfig.parse(path) of call i is fulfilled with raw: the then-callback
\* of _onDidOpenDocument, and the continuation of the rebuild it completes
ResolverFulfilled(i, raw) ==
    LET path == res[i].path
        k == res[i].rebuild
        map1 == thenStore(i, raw)
        src1 == Put(mapSrc, path, i)
        completes == /\ k # 0
                     /\ rebuilds[k].state = "pending"
                     /\ AllFulfilled(k, i)
        continues == completes /\ rebuilds[k].doc # NoEditor
    IN /\ res[i].status = "pending"
       /\ res' = [res EXCEPT ![i].status = "fulfilled", ![i].done = epoch,
                             ![i].raw = raw]
       /\ _documentToConfigMap' = map1
       /\ mapSrc' = src1
       /\ options' = applyEditorConfigToTextEditor(activeTextEditor, map1,
                                                   _defaults, options)
       /\ rebuilds' = IF completes
                      THEN [rebuilds EXCEPT ![k].state = "fulfilled",
                                            ![k].ran = continues]
                      ELSE rebuilds
       /\ runs' = IF continues
                  THEN runs \o applyOnSaveTransformations(rebuilds[k].doc,
                                                          map1, src1, k)
                  ELSE runs
       /\ UNCHANGED <<epoch, text, activeTextEditor, visibleTextEditors,
                      _defaults, filesTrim, saves, activations, lastOpen,
                      toolVars>>

\* editorconfig.parse(path) of call i is rejected: the promise of
\* _onDidOpenDocument is rejected, and with it the Promise.all of its rebuild
ResolverFailed(i) ==
    LET k == res[i].rebuild IN
    /\ res[i].status = "pending"
    /\ res' = [res EXCEPT ![i].status = "failed", ![i].done = epoch]
    /\ rebuilds' = IF k # 0 /\ rebuilds[k].state = "pending"
                   THEN [rebuilds EXCEPT ![k].state = "rejected"]
                   ELSE rebuilds
    /\ UNCHANGED <<_documentToConfigMap, mapSrc, epoch, runs, text,
                   activeTextEditor, visibleTextEditors, _defaults, options,
                   filesTrim, saves, activations, lastOpen, toolVars>>

\* the thenable of a trimming editor.edit of run i settles; the last one
\* fulfils Promise.all, whose continuation is insertFinalNewlineTransform
TrimEditSettled(i, e) ==
    LET doc == runs[i].doc
        lines == ApplyDelete(text[doc], e)
        run1 == [runs[i] EXCEPT !.pending = @ \ {e}]
    IN /\ e \in runs[i].pending
       /\ text' = [text EXCEPT ![doc] = lines]
       /\ runs' = [runs EXCEPT ![i] =
                     IF run1.stage = "trim" /\ TrimAllSettled(run1.pending)
                     THEN insertFinalNewlineTransform(run1, lines)
                     ELSE run1]
       /\ UNCHANGED <<_documentToConfigMap, mapSrc, epoch, res, rebuilds,
                      activeTextEditor, visibleTextEditors, _defaults, options,
                      filesTrim, saves, activations, lastOpen, toolVars>>

\* the thenable of the inserting editor.edit of run i settles; its
\* continuation calls textDocument.save()
InsertSettled(i, outcome) ==
    LET doc == runs[i].doc IN
    /\ runs[i].stage = "newline"
    /\ runs[i].insert # <<>>
    /\ outcome \in InsertOutcomes(runs[i].insert[1])
    /\ text' = [text EXCEPT ![doc] =
                  CASE outcome = "applied" -> ApplyInsert(@, runs[i].insert[1])
                    [] outcome = "printed" -> ApplyPrint(@, runs[i].insert[1])
                    [] OTHER -> @]
    /\ runs' = [runs EXCEPT ![i].stage = IF outcome = "rejected" THEN "threw"
                                         ELSE "save",
                            ![i].insert = <<>>]
    /\ UNCHANGED <<_documentToConfigMap, mapSrc, epoch, res, rebuilds,
                   activeTextEditor, visibleTextEditors, _defaults, options,
                   filesTrim, saves, activations, lastOpen, toolVars>>

\* textDocument.save() of run i settles
SaveSettled(i) ==
    /\ runs[i].stage = "save"
    /\ runs' = [runs EXCEPT ![i].stage = "done"]
    /\ UNCHANGED <<_documentToConfigMap, mapSrc, epoch, res, rebuilds, text,
                   activeTextEditor, visibleTextEditors, _defaults, options,
                   filesTrim, saves, activations, lastOpen, toolVars>>

PipelineStep ==
    \E i \in 1..Len(runs) :
        \/ \E e \in runs[i].pending : TrimEditSettled(i, e)
        \/ \E outcome \in {"applied", "dropped", "printed", "rejected"} :
              InsertSettled(i, outcome)
        \/ SaveSettled(i)

Next ==
    \/ \E ed \in Docs \cup {NoEditor} : ActiveEditorChanged(ed)
    \/ ConfigChanged
    \/ \E d \in Docs : DocumentSaved(d)
    \/ \E i \in 1..Len(res), v \in 0..epoch :
         v >= res[i].epoch /\ ResolverFulfilled(i, parse(res[i].path, v))
    \/ \E i \in 1..Len(res) : ResolverFailed(i)
    \/ PipelineStep

Spec == Init /\ [][Next]_vars

\* the pipeline alone, on the source document
PipeNext ==
    \/ DocumentSaved(SrcDoc)
    \/ PipelineStep

PipeSpec == PipeInit /\ [][PipeNext]_vars

\* the host settles every edit and every save it was handed
PipeFair == PipeSpec /\ WF_vars(PipelineStep)

(***************************************************************************)
(* The generate command.                                                   *)
(***************************************************************************)
supportedProperties == <<"indent_style", "indent_size", "tab_width">>

\* the forEach over the supported properties: a line for each property the
\* settings have of their own (the template prints the value)
RECURSIVE propertyLines(_, _)
propertyLines(settings, names) ==
    IF names = <<>> THEN <<>>
    ELSE (IF Head(names) \in DOMAIN settings
          THEN <<[setting |-> Head(names), value |-> settings[Head(names)]]>>
          ELSE <<>>)
         \o propertyLines(settings, Tail(names))

\* fileContents
fileContents(settings) ==
    [header |-> <<"root = true", "", "[*]">>,
     lines |-> propertyLines(settings, supportedProperties)]

\* a file that was at the workspace root before the command ran
ForeignFile == [contents |-> [header |-> <<"# mine">>, lines |-> <<>>], by |-> 0]

\* writeFile(editorconfigFile, fileContents, ...) without error: the file
\* is created or replaced
writeFile(i, file) == <<file>>

\* generateEditorConfig() up to the call of exists().  History: read, the
\* host settings read; settings, what toEditorConfig returned; over, whether
\* the write replaced a file.
generateEditorConfig ==
    /\ Len(gens) < MaxGens
    /\ gens' = Append(gens,
         IF ~Truthy(rootPath)
         THEN [stage |-> "no folder", read |-> _defaults, settings |-> <<>>,
               contents |-> fileContents(<<>>), over |-> FALSE]
         ELSE LET settings == toEditorConfig(_defaults)
              IN [stage |-> "exists", read |-> _defaults,
                  settings |-> settings,
                  contents |-> fileContents(settings), over |-> FALSE])
    /\ UNCHANGED <<_documentToConfigMap, mapSrc, epoch, res, rebuilds, runs,
                   text, activeTextEditor, visibleTextEditors, _defaults,
                   options, filesTrim, saves, activations, lastOpen, rootPath,
                   disk, conv>>

\* the callback of exists(editorconfigFile, ...)
ExistsCallback(i) ==
    /\ gens[i].stage = "exists"
    /\ gens' = [gens EXCEPT ![i].stage =
                   IF disk # <<>> THEN "already exists" ELSE "write"]
    /\ UNCHANGED <<_documentToConfigMap, mapSrc, epoch, res, rebuilds, runs,
                   text, activeTextEditor, visibleTextEditors, _defaults,
                   options, filesTrim, saves, activations, lastOpen, rootPath,
                   disk, conv>>

\* the callback of writeFile(editorconfigFile, fileContents, ...)
WriteCallback(i, err) ==
    /\ gens[i].stage = "write"
    /\ IF err
       THEN /\ gens' = [gens EXCEPT ![i].stage = "error"]
            /\ UNCHANGED disk
       ELSE /\ gens' = [gens EXCEPT ![i].stage = "written",
                                    ![i].over = disk # <<>>]
            /\ disk' = writeFile(i, [contents |-> gens[i].contents, by |-> i])
    /\ UNCHANGED <<_documentToConfigMap, mapSrc, epoch, res, rebuilds, runs,
                   text, activeTextEditor, visibleTextEditors, _defaults,
                   options, filesTrim, saves, activations, lastOpen, rootPath,
                   conv>>

\* the state after activation, in any workspace and under any host settings
GenInit ==
    /\ _documentToConfigMap = <<>>
    /\ mapSrc = <<>>
    /\ epoch = 0
    /\ res = rebuildCalls(textDocuments, 0, 1)
    /\ rebuilds = <<[doc |-> NoEditor, state |-> "pending", epoch |-> 0,
                     ran |-> FALSE]>>
    /\ runs = <<>>
    /\ \E t \in SpecTexts : text = [d \in Docs |-> t]
    /\ activeTextEditor = CfgDoc
    /\ visibleTextEditors = {CfgDoc}
    /\ _defaults \in HostSettings
    /\ options = <<>>
    /\ filesTrim = FALSE
    /\ saves = 0
    /\ activations = 0
    /\ lastOpen = lastRebuildOpen
    /\ rootPath \in {Undef, Str("/w")}
    /\ disk \in {<<>>, <<ForeignFile>>}
    /\ gens = <<>>
    /\ conv = NoConv

GenNext ==
    \/ generateEditorConfig
    \/ \E i \in 1..Len(gens) : ExistsCallback(i)
    \/ \E i \in 1..Len(gens), err \in BOOLEAN : WriteCallback(i, err)
    \/ ConfigChanged

GenSpec == GenInit /\ [][GenNext]_vars

(***************************************************************************)
(* The Utils conversions on their own: a call of toEditorConfig on host    *)
(* options followed by fromEditorConfig on what it returned, or a call of  *)
(* fromEditorConfig on a resolved configuration.                           *)
(***************************************************************************)
\* values of tab_width and indent_size, of indent_style, and the defaults
SizeValues == {Undef, Num(0), Num(2), Num(8)}
StyleValues == {Undef, Str("tab"), Str("space")}
ConvConfigs ==
    { Config(style, size, width, Undef, Undef, Undef) :
        style \in StyleValues, size \in SizeValues, width \in SizeValues }
ConvDefaults ==
    { [tabSize |-> Num(2), insertSpaces |-> Bool(TRUE)],
      [tabSize |-> Num(4), insertSpaces |-> Bool(FALSE)],
      [tabSize |-> Str("auto"), insertSpaces |-> Str("auto")] }
NoOptions == [tabSize |-> Undef, insertSpaces |-> Undef]

ConvInit ==
    /\ _documentToConfigMap = <<>>
    /\ mapSrc = <<>>
    /\ epoch = 0
    /\ res = rebuildCalls(textDocuments, 0, 1)
    /\ rebuilds = <<[doc |-> NoEditor, state |-> "pending", epoch |-> 0,
                     ran |-> FALSE]>>
    /\ runs = <<>>
    /\ \E t \in SpecTexts : text = [d \in Docs |-> t]
    /\ activeTextEditor = CfgDoc
    /\ visibleTextEditors = {CfgDoc}
    /\ _defaults = [tabSize |-> Num(4), insertSpaces |-> Bool(TRUE)]
    /\ options = <<>>
    /\ filesTrim = FALSE
    /\ saves = 0
    /\ activations = 0
    /\ lastOpen = lastRebuildOpen
    /\ rootPath = Str("/w")
    /\ disk = <<>>
    /\ gens = <<>>
    /\ \/ \E o \in HostSettings, d \in ConvDefaults :
            conv = [stage |-> "options", from |-> "options", options |-> o,
                    emitted |-> <<>>, config |-> NoConfig, defaults |-> d,
                    result |-> NoOptions]
       \/ \E c \in ConvConfigs, d \in ConvDefaults :
            conv = [stage |-> "config", from |-> "config",
                    options |-> NoOptions, emitted |-> <<>>, config |-> c,
                    defaults |-> d, result |-> NoOptions]

\* Utils.toEditorConfig(options)
ToEditorConfigCall ==
    /\ conv.stage = "options"
    /\ conv' = [conv EXCEPT !.stage = "config",
                            !.emitted = toEditorConfig(conv.options),
                            !.config = knownProps(toEditorConfig(conv.options))]
    /\ UNCHANGED <<_documentToConfigMap, mapSrc, epoch, res, rebuilds, runs,
                   text, activeTextEditor, visibleTextEditors, _defaults,
                   options, filesTrim, saves, activations, lastOpen, rootPath,
                   disk, gens>>

\* Utils.fromEditorConfig(config, defaults)
FromEditorConfigCall ==
    /\ conv.stage = "config"
    /\ conv' = [conv EXCEPT !.stage = "done",
                            !.result = fromEditorConfig(conv.config, conv.defaults)]
    /\ UNCHANGED <<_documentToConfigMap, mapSrc, epoch, res, rebuilds, runs,
                   text, activeTextEditor, visibleTextEditors, _defaults,
                   options, filesTrim, saves, activations, lastOpen, rootPath,
                   disk, gens>>

ConvNext ==
    \/ ToEditorConfigCall
    \/ FromEditorConfigCall

ConvSpec == ConvInit /\ [][ConvNext]_vars

(***************************************************************************)
(* Properties.                                                             *)
(***************************************************************************)
RunIds == 1..Len(runs)
ResIds == 1..Len(res)
RebuildIds == 1..Len(rebuilds)
\* the calls of editorconfig.parse that rebuild k made
CallsOf(k) == {j \in ResIds : res[j].rebuild = k}
\* no transform of run i is in flight any more
Finished(i) == runs[i].stage \in {"save", "done", "threw"}
\* run j started on the document a finished earlier run left, under the same
\* configuration
Sequel(j) ==
    /\ runs[j].prev # 0
    /\ runs[j].quiet
    /\ runs[runs[j].prev].cfg = runs[j].cfg
\* the inserting edit of run i put a newline sequence into the document
InsertedNewline(i) ==
    /\ runs[i].inserted # <<>>
    /\ runs[i].inserted[1].text \in NewlineSequences

\* C1: the pipeline is never started on a configuration file by its save
\* event directly; a run that continues the rebuild of a save event exists
\* (so its edits and its save are issued) only when every call of
\* editorconfig.parse that this rebuild made has settled, and it read a
\* configuration stored after the rebuild cleared the map.
C1_RebuildBeforeTransform ==
    \A i \in RunIds :
        /\ IsConfigFile(runs[i].doc) => runs[i].rebuild # 0
        /\ runs[i].rebuild # 0 =>
             LET k == runs[i].rebuild IN
             /\ rebuilds[k].doc = runs[i].doc
             /\ rebuilds[k].epoch >= 1
             /\ CallsOf(k) # {}
             /\ \A j \in CallsOf(k) : res[j].status # "pending"
             /\ res[runs[i].src].done >= rebuilds[k].epoch

\* C1 witness: a configuration file was saved, its rebuild completed, and
\* the run that continued it inserted a final newline and saved the file.
C1_Witness ==
    \E i \in RunIds :
        /\ runs[i].rebuild # 0
        /\ InsertedNewline(i)
        /\ runs[i].stage = "done"

\* C2: in every run, insertFinalNewlineTransform has read the document or
\* issued its insertion, and save() has been called, only when no trimming
\* edit of the run is pending; and save() has been called only when the
\* inserting edit is no longer pending.
C2_TrimThenNewlineThenSave ==
    \A i \in RunIds :
        /\ (runs[i].seen # <<>> \/ runs[i].inserted # <<>> \/ runs[i].stage # "trim")
             => runs[i].pending = {}
        /\ runs[i].stage \in {"save", "done"} => runs[i].insert = <<>>
        /\ runs[i].stage = "newline" => runs[i].insert = runs[i].inserted

\* C2 witness: a run that trimmed two lines, then inserted a final newline,
\* then saved.
C2_Witness ==
    \E i \in RunIds :
        /\ Cardinality(runs[i].issued) >= 2
        /\ InsertedNewline(i)
        /\ runs[i].stage = "done"

\* C3: the configuration a run reads for the just-saved configuration file
\* after the rebuild completes was stored by a call of editorconfig.parse
\* started after that rebuild cleared the map.
C3_NoStaleConfig ==
    \A i \in RunIds :
        runs[i].rebuild # 0 =>
            res[runs[i].src].epoch >= rebuilds[runs[i].rebuild].epoch

\* C4: a call of editorconfig.parse that is fulfilled stores its path's
\* entry whatever became of the other calls (it is there until the map is
\* cleared), and every entry of the map was stored by a fulfilled call for
\* that path: a call that failed stores nothing, so a path whose calls all
\* failed has no entry.
C4_FailuresIsolated ==
    /\ \A j \in ResIds :
          (res[j].status = "fulfilled" /\ res[j].done = epoch)
            => res[j].path \in DOMAIN _documentToConfigMap
    /\ \A p \in DOMAIN _documentToConfigMap :
          \E j \in ResIds :
              /\ res[j].path = p
              /\ res[j].status = "fulfilled"
              /\ res[j].done = epoch

\* C4 witness: in one rebuild, the call for one document failed first and
\* the call for another was fulfilled after it; the second path has an
\* entry and the first has none.
C4_Witness ==
    \E k \in RebuildIds : \E a, b \in CallsOf(k) :
        /\ res[a].status = "failed"
        /\ res[b].status = "fulfilled"
        /\ rebuilds[k].state = "rejected"
        /\ res[b].done = epoch
        /\ res[b].path \in DOMAIN _documentToConfigMap
        /\ res[a].path \notin DOMAIN _documentToConfigMap

\* C5: once every call of editorconfig.parse made by the rebuild of a saved
\* configuration file has settled, fulfilled or failed, the pipeline has
\* been run on that file.
C5_RebuildContinues ==
    \A k \in RebuildIds :
        (/\ rebuilds[k].doc # NoEditor
         /\ \A j \in CallsOf(k) : res[j].status # "pending")
            => rebuilds[k].ran

\* C6: no entry of the map has indent_size 'tab'; an entry stored from a
\* resolved configuration whose indent_size was 'tab' has that
\* configuration's tab_width as its indent_size, and is otherwise what was
\* resolved.
C6_IndentSizeNormalized ==
    \A p \in DOMAIN _documentToConfigMap :
        LET stored == _documentToConfigMap[p]
            raw == res[mapSrc[p]].raw
        IN /\ stored.indent_size # Str("tab")
           /\ raw.indent_size = Str("tab") => stored.indent_size = raw.tab_width
           /\ raw.indent_size # Str("tab") => stored.indent_size = raw.indent_size
           /\ [stored EXCEPT !.indent_size = Undef] = [raw EXCEPT !.indent_size = Undef]

\* C6 witness: editorconfig.parse resolved indent_size 'tab' with tab_width
\* 4, and the entry stored has indent_size 4.
C6_Witness ==
    \E p \in DOMAIN _documentToConfigMap :
        /\ res[mapSrc[p]].raw.indent_size = Str("tab")
        /\ res[mapSrc[p]].raw.tab_width = Num(4)
        /\ _documentToConfigMap[p].indent_size = Num(4)

\* C7: between two clearings of the map, editorconfig.parse is called at
\* most once for a path.
C7_AtMostOneResolution ==
    \A i, j \in ResIds :
        (i # j /\ res[i].path = res[j].path) => res[i].epoch # res[j].epoch

\* C8: a run started on the document that finished runs left, under the
\* same configuration, issues no trimming edit; and whenever every run has
\* finished, the trimming of the last run's configuration finds nothing to
\* delete in the document.
C8_TrimIdempotent ==
    /\ \A j \in RunIds : Sequel(j) => runs[j].issued = {}
    /\ (runs # <<>> /\ \A i \in RunIds : Finished(i) /\ runs[i].pending = {})
         => trimmingOperations(runs[Len(runs)].cfg, text[runs[Len(runs)].doc]) = {}

\* C8 witness: a first run deleted trailing whitespace, and a second run on
\* the document it left issued no edit.
C8_Witness ==
    \E j \in RunIds :
        /\ Sequel(j)
        /\ runs[runs[j].prev].issued # {}
        /\ runs[j].issued = {}
        /\ Finished(j)

\* C9: a run issues an insertion only if insert_final_newline is true and
\* the document it read has a last line of length at least one; and a run
\* started on the document left by a run that inserted a newline, under the
\* same configuration, issues no insertion.
C9_NoInsertionOnEmptyLastLine ==
    /\ \A i \in RunIds :
          runs[i].inserted # <<>> =>
             LET lines == runs[i].seen[1] IN
             /\ Truthy(runs[i].cfg.insert_final_newline)
             /\ Len(lines) > 0
             /\ Len(lines[Len(lines)]) >= 1
    /\ \A j \in RunIds :
          (Sequel(j) /\ InsertedNewline(runs[j].prev)) => runs[j].inserted = <<>>

\* C9 witness: with insert_final_newline true, a first run inserted a
\* newline, and a second run read a document whose last line is empty and
\* went on to save without inserting.
C9_Witness ==
    \E j \in RunIds :
        /\ Sequel(j)
        /\ InsertedNewline(runs[j].prev)
        /\ Truthy(runs[j].cfg.insert_final_newline)
        /\ runs[j].seen # <<>>
        /\ runs[j].seen[1][Len(runs[j].seen[1])] = <<>>
        /\ runs[j].inserted = <<>>
        /\ runs[j].stage = "done"

\* C11: a write of the generate command never replaces a file that is at
\* the workspace root when the write happens.
C11_NeverOverwrites ==
    \A i \in 1..Len(gens) : gens[i].stage = "written" => ~gens[i].over

\* a property that is present
Present(v) == v # Undef

C16_NoUntitledEntry ==
    /\ UntitledDoc \notin DOMAIN _documentToConfigMap
    /\ \A j \in ResIds : res[j].path # UntitledDoc

\* C16 witness: the untitled document was observed by an activation and by
\* the rebuild of a saved configuration file, whose calls were fulfilled.
C16_Witness ==
    /\ activations = 1
    /\ activeTextEditor = UntitledDoc
    /\ Len(rebuilds) = 2
    /\ rebuilds[2].state = "fulfilled"
    /\ _documentToConfigMap # <<>>

\* C17 as stated: the last call of _onDidOpenDocument, when it took one of
\* the two branches that leave the map alone (untitled document, stored
\* path), called applyEditorConfigToTextEditor.
C17_RefreshInBothNoOpCases ==
    lastOpen.branch \in {"untitled", "stored"} => lastOpen.refresh

\* C17 amended: an activation of the editor of an untitled document or of a
\* document with a stored entry leaves the map alone and calls
\* editorconfig.parse for nothing; with a stored entry it calls
\* applyEditorConfigToTextEditor, which pushes the options of that entry;
\* for an untitled document it returns without that call and no options
\* change.
C17_RefreshOnlyWhenStored ==
    [][ \A ed \in Docs :
          ActiveEditorChanged(ed) =>
            /\ (ed = UntitledDoc \/ ed \in DOMAIN _documentToConfigMap) =>
                 /\ _documentToConfigMap' = _documentToConfigMap
                 /\ res' = res
            /\ (ed # UntitledDoc /\ ed \in DOMAIN _documentToConfigMap) =>
                 /\ lastOpen'.refresh
                 /\ ed \in DOMAIN options'
                 /\ options'[ed] = fromEditorConfig(_documentToConfigMap[ed], _defaults)
            /\ ed = UntitledDoc =>
                 /\ ~lastOpen'.refresh
                 /\ options' = options
      ]_vars

\* C17 witness: the editor of a document with a stored entry was activated
\* and its options were pushed by the refresh.
C17_Witness ==
    /\ lastOpen.branch = "stored"
    /\ lastOpen.refresh
    /\ lastOpen.doc = SrcDoc
    /\ activeTextEditor = SrcDoc
    /\ SrcDoc \in DOMAIN options

\* C19: whenever the options of an editor are assigned, the editor is the
\* active one, its document has an entry in the map, and the options are
\* fromEditorConfig of that entry and of the default settings held at that
\* moment, which have been initialized.
C19_OptionsFromOwnConfig ==
    [][ \A d \in Docs :
          (/\ d \in DOMAIN options'
           /\ (d \notin DOMAIN options \/ options'[d] # options[d]))
            => /\ d = activeTextEditor'
               /\ d \in DOMAIN _documentToConfigMap'
               /\ _defaults' \in EditorSettings
               /\ options'[d] = fromEditorConfig(_documentToConfigMap'[d], _defaults')
      ]_vars

\* C19 witness: options were pushed to the editors of two documents, and
\* they differ as the two stored configurations do.
C19_Witness ==
    /\ {CfgDoc, SrcDoc} \subseteq DOMAIN options
    /\ {CfgDoc, SrcDoc} \subseteq DOMAIN _documentToConfigMap
    /\ options[CfgDoc] # options[SrcDoc]
    /\ options[SrcDoc] = fromEditorConfig(_documentToConfigMap[SrcDoc], _defaults)

\* C12: fromEditorConfig returns, for a configuration whose tab_width and
\* indent_size are absent or non-negative integers and whose indent_style is
\* absent, 'tab' or 'space': as tabSize tab_width if present, else
\* indent_size if present, else defaults.tabSize; as insertSpaces
\* (indent_style != 'tab') if indent_style is present, else
\* defaults.insertSpaces.
C12_ResolveFallsBack ==
    (conv.stage = "done" /\ conv.from = "config") =>
        /\ conv.result.tabSize =
             IF Present(conv.config.tab_width) THEN conv.config.tab_width
             ELSE IF Present(conv.config.indent_size) THEN conv.config.indent_size
             ELSE conv.defaults.tabSize
        /\ conv.result.insertSpaces =
             IF Present(conv.config.indent_style)
             THEN Bool(conv.config.indent_style # Str("tab"))
             ELSE conv.defaults.insertSpaces

\* a positive integer
Positive(v) == v.t = "number" /\ v.s = "" /\ v.n > 0

\* C13: toEditorConfig of {insertSpaces: true, tabSize} with tabSize a
\* positive integer returns exactly {indent_style: 'space', indent_size:
\* tabSize}, and fromEditorConfig of that, under any defaults, returns
\* {insertSpaces: true, tabSize}.
C13_RoundTrip ==
    (/\ conv.from = "options"
     /\ conv.stage \in {"config", "done"}
     /\ conv.options.insertSpaces = Bool(TRUE)
     /\ Positive(conv.options.tabSize)) =>
        /\ DOMAIN conv.emitted = {"indent_style", "indent_size"}
        /\ conv.emitted["indent_style"] = Str("space")
        /\ conv.emitted["indent_size"] = conv.options.tabSize
        /\ conv.stage = "done" =>
             conv.result = [insertSpaces |-> Bool(TRUE),
                            tabSize |-> conv.options.tabSize]

\* C13 witness: tabSize 12 with insertSpaces true went through both
\* conversions, under defaults that say tabs of width 4, and came back.
C13_Witness ==
    /\ conv.from = "options"
    /\ conv.stage = "done"
    /\ conv.options = [tabSize |-> Num(12), insertSpaces |-> Bool(TRUE)]
    /\ conv.defaults = [tabSize |-> Num(4), insertSpaces |-> Bool(FALSE)]
    /\ conv.result = [insertSpaces |-> Bool(TRUE), tabSize |-> Num(12)]

\* the integer the specification gives for a tabSize setting
ExpectedTabSize(v) ==
    CASE v = Str("auto") -> Num(4)
      [] v = Str("8") -> Num(8)
      [] v = Str("08") -> Num(8)
      [] v = Str("12") -> Num(12)
      [] OTHER -> v
\* 'auto', a decimal numeral or an integer
SpecifiedTabSize(v) == v # Undef

\* C14: every invocation of the generate command in a workspace folder got
\* from toEditorConfig exactly indent_style 'space' and indent_size when
\* insertSpaces is true, exactly indent_style 'tab' and tab_width when it is
\* false or 'auto', and nothing otherwise, the size being 4 for 'auto' and
\* the integer of a numeral; its file contents are 'root = true', an empty
\* line, '[*]' and one line for each property emitted, never both
\* indent_size and tab_width; a file it wrote holds these contents.
C14_EmittedProperties ==
    /\ \A i \in 1..Len(gens) :
          gens[i].stage # "no folder" =>
            LET o == gens[i].read
                s == gens[i].settings
                c == gens[i].contents
                size == ExpectedTabSize(o.tabSize)
            IN /\ o.insertSpaces = Bool(TRUE) =>
                    /\ DOMAIN s = {"indent_style", "indent_size"}
                    /\ s["indent_style"] = Str("space")
                    /\ SpecifiedTabSize(o.tabSize) => s["indent_size"] = size
               /\ o.insertSpaces \in {Bool(FALSE), Str("auto")} =>
                    /\ DOMAIN s = {"indent_style", "tab_width"}
                    /\ s["indent_style"] = Str("tab")
                    /\ SpecifiedTabSize(o.tabSize) => s["tab_width"] = size
               /\ o.insertSpaces \notin {Bool(TRUE), Bool(FALSE), Str("auto")} =>
                    DOMAIN s = {}
               /\ c.header = <<"root = true", "", "[*]">>
               /\ Len(c.lines) = Cardinality(DOMAIN s)
               /\ \A j \in 1..Len(c.lines) :
                    /\ c.lines[j].setting \in DOMAIN s
                    /\ c.lines[j].value = s[c.lines[j].setting]
               /\ \A p \in DOMAIN s : \E j \in 1..Len(c.lines) :
                    c.lines[j].setting = p
               /\ ~({"indent_size", "tab_width"} \subseteq
                     {c.lines[j].setting : j \in 1..Len(c.lines)})
    /\ \A i \in 1..Len(gens) :
          (disk # <<>> /\ disk[1].by = i) => disk[1].contents = gens[i].contents

\* C14 witness: with insertSpaces 'auto' and tabSize 'auto' the command
\* wrote a file with the lines indent_style = tab and tab_width = 4.
C14_Witness ==
    /\ disk # <<>>
    /\ disk[1].by >= 1
    /\ gens[disk[1].by].read = [tabSize |-> Str("auto"), insertSpaces |-> Str("auto")]
    /\ disk[1].contents.lines =
         <<[setting |-> "indent_style", value |-> Str("tab")],
           [setting |-> "tab_width", value |-> Num(4)]>>

\* C18: every run of the pipeline (started for a document with a stored
\* configuration and a visible editor) eventually has its save() settled,
\* whatever properties the configuration has, when the host settles every
\* edit and save.
C18_PipelineSettles ==
    \A i \in 1..MaxEvents :
        (Len(runs) >= i) ~> (Len(runs) >= i /\ runs[i].stage = "done")

\* line ends in a trailing-whitespace character
EndsInWhitespace(line) == line # <<>> /\ line[Len(line)] \in WhitespaceChars
\* after is before without whitespace at its end, and nothing else changed
TrimmedFrom(after, before) ==
    /\ Len(after) <= Len(before)
    /\ after = SubSeq(before, 1, Len(after))
    /\ \A k \in (Len(after) + 1)..Len(before) : before[k] \in WhitespaceChars
    /\ ~EndsInWhitespace(after)
\* line holds whitespace only
WhitespaceOnly(line) == \A k \in 1..Len(line) : line[k] \in WhitespaceChars

\* C20: when the only run on a document has completed, under a
\* configuration with trim_trailing_whitespace and insert_final_newline true
\* and with the host's own trimming off, and the document it read had a
\* non-empty line: no line of the document ends in whitespace, the last line
\* is empty, there is at most one line more than was read, every line read
\* is there without its trailing whitespace, and a last line that held
\* whitespace only got no insertion.
C20_PipelineResult ==
    (/\ Len(runs) = 1
     /\ runs[1].stage = "done"
     /\ runs[1].cfg.trim_trailing_whitespace = Bool(TRUE)
     /\ runs[1].cfg.insert_final_newline = Bool(TRUE)
     /\ ~filesTrim
     /\ \E k \in 1..Len(runs[1].read[1]) : runs[1].read[1][k] # <<>>) =>
        LET before == runs[1].read[1]
            after == text[runs[1].doc]
        IN /\ \A k \in 1..Len(after) : ~EndsInWhitespace(after[k])
           /\ after[Len(after)] = <<>>
           /\ Len(after) <= Len(before) + 1
           /\ Len(after) >= Len(before)
           /\ \A k \in 1..Len(before) : TrimmedFrom(after[k], before[k])
           /\ WhitespaceOnly(before[Len(before)]) =>
                /\ runs[1].inserted = <<>>
                /\ Len(after) = Len(before)

\* the newline sequence the specification gives for end_of_line
ExpectedNewline(eol) ==
    IF toLowerCase(eol) = "cr" THEN Str("\r")
    ELSE IF toLowerCase(eol) = "crlf" THEN Str("\r\n")
    ELSE Str("\n")

\* C10: the insertion a run issues is one insertion, at the end of the last
\* line of the document it read, of '\r' when end_of_line is 'cr', '\r\n'
\* when it is 'crlf' (whatever the case of its letters), and '\n' for every
\* other value.
C10_NewlineSequence ==
    \A i \in RunIds :
        runs[i].inserted # <<>> =>
            LET e == runs[i].inserted[1]
                lines == runs[i].seen[1]
            IN /\ Len(runs[i].inserted) = 1
               /\ e.line = Len(lines) - 1
               /\ e.col = Len(lines[Len(lines)])
               /\ e.text = ExpectedNewline(runs[i].cfg.end_of_line.s)

====
